---- MODULE Spec2Model ----
(***************************************************************************)
(* A model of debuglog/measuretime.py: the TimeMeasurer ledger, the        *)
(* process-wide registry TimeMeasurer._measurers, the time_record          *)
(* decorator and the csv adapter (to_csv / from_csv); and of               *)
(* debuglog/debuglog.py: the two formatter setters, the logger "debug"     *)
(* with its three handlers and the records logged through it.              *)
(*                                                                         *)
(* Encodings.                                                              *)
(*   - A Python str is a Text: a sequence of symbols (characters, or       *)
(*     chunks of characters that no operation of the program looks into).  *)
(*   - A Python value that may be a str, an int or None is a record        *)
(*     [type, s, i] built by PyStr, PyInt and None.                        *)
(*   - datetime.timedelta is Python's own normal form                      *)
(*     [days, seconds, microseconds], 0 <= seconds < 86400 and             *)
(*     0 <= microseconds < 10^6; datetime.datetime is the same record,     *)
(*     days being the ordinal of the date.                                 *)
(*   - A TimeMeasurer instance is identified by its id (ids are never      *)
(*     reused, so id and object identity coincide); heap maps the id of    *)
(*     every instance ever constructed to its fields.                      *)
(***************************************************************************)
EXTENDS Integers, Sequences, FiniteSets, TLC

(***************************************************************************)
(* Bounds of the model.                                                    *)
(***************************************************************************)
MaxInstances == 2
MaxSplits == 2
MaxAdvances == 1
MaxDepth == 1
MaxCalls == 2
MaxFiles == 1
MaxJoined == 3
MaxLines == 4

(***************************************************************************)
(* Python values.                                                          *)
(***************************************************************************)
PyStr(s) == [type |-> "str", s |-> s, i |-> 0]
PyInt(i) == [type |-> "int", s |-> <<>>, i |-> i]
None == [type |-> "NoneType", s |-> <<>>, i |-> 0]

\* The value a failed or absent computation leaves: an exception raised.
Raised == [type |-> "raised", s |-> <<>>, i |-> 0]

(***************************************************************************)
(* datetime.timedelta and datetime.datetime arithmetic.                    *)
(***************************************************************************)
timedelta(days, seconds, microseconds) ==
    LET s2 == seconds + (microseconds \div 1000000)
    IN  [days |-> days + (s2 \div 86400),
         seconds |-> s2 % 86400,
         microseconds |-> microseconds % 1000000]

\* td(hours=h, minutes=m, seconds=s, microseconds=us)
td(hours, minutes, seconds, microseconds) ==
    timedelta(0, hours * 3600 + minutes * 60 + seconds, microseconds)

\* datetime + timedelta
DtAdd(t, d) ==
    timedelta(t.days + d.days, t.seconds + d.seconds,
              t.microseconds + d.microseconds)

\* datetime - datetime, and timedelta - timedelta
DtSub(a, b) ==
    timedelta(a.days - b.days, a.seconds - b.seconds,
              a.microseconds - b.microseconds)

\* a < b for two datetimes or two timedeltas
DtLess(a, b) ==
    \/ a.days < b.days
    \/ a.days = b.days /\ a.seconds < b.seconds
    \/ a.days = b.days /\ a.seconds = b.seconds
                       /\ a.microseconds < b.microseconds

DtLeq(a, b) == a = b \/ DtLess(a, b)

(***************************************************************************)
(* Text: formatting and parsing of numbers.                                *)
(***************************************************************************)
DigitChars == <<"0", "1", "2", "3", "4", "5", "6", "7", "8", "9">>

IsDigit(c) == \E k \in 1..10 : DigitChars[k] = c

DigitVal(c) == (CHOOSE k \in 1..10 : DigitChars[k] = c) - 1

RECURSIVE Digits(_)
\* "%d" % n for n >= 0
Digits(n) ==
    IF n < 10 THEN <<DigitChars[n + 1]>>
    ELSE Digits(n \div 10) \o <<DigitChars[(n % 10) + 1]>>

\* "%d" % n
FormatInt(n) == IF n < 0 THEN <<"-">> \o Digits(-n) ELSE Digits(n)

RECURSIVE ZeroPad(_, _)
\* "%0<w>d" % n for n >= 0
ZeroPad(t, w) == IF Len(t) >= w THEN t ELSE ZeroPad(<<"0">> \o t, w)

RECURSIVE DigitsValue(_, _)
DigitsValue(t, acc) ==
    IF t = <<>> THEN acc
    ELSE DigitsValue(Tail(t), acc * 10 + DigitVal(Head(t)))

RECURSIVE Strip(_)
\* str.strip() for the blank
Strip(t) ==
    IF t # <<>> /\ Head(t) = " " THEN Strip(Tail(t))
    ELSE IF t # <<>> /\ t[Len(t)] = " " THEN Strip(SubSeq(t, 1, Len(t) - 1))
    ELSE t

\* int(x) of a str: blanks around, an optional sign, then digits only;
\* Raised stands for ValueError.
ParseInt(x) ==
    LET t == Strip(x)
        signed == t # <<>> /\ Head(t) \in {"-", "+"}
        body == IF signed THEN Tail(t) ELSE t
    IN  IF body = <<>> \/ \E k \in 1..Len(body) : ~IsDigit(body[k])
        THEN Raised
        ELSE PyInt(IF signed /\ Head(t) = "-"
                   THEN -DigitsValue(body, 0) ELSE DigitsValue(body, 0))

RECURSIVE SplitAt(_, _, _)
SplitAt(t, c, cur) ==
    IF t = <<>> THEN <<cur>>
    ELSE IF Head(t) = c THEN <<cur>> \o SplitAt(Tail(t), c, <<>>)
    ELSE SplitAt(Tail(t), c, Append(cur, Head(t)))

\* x.split(c)
Split(t, c) == SplitAt(t, c, <<>>)

\* c in x
Contains(t, c) == \E k \in 1..Len(t) : t[k] = c

RECURSIVE IndexFrom(_, _, _)
IndexFrom(seq, x, k) ==
    IF k > Len(seq) THEN Raised
    ELSE IF seq[k] = x THEN PyInt(k)
    ELSE IndexFrom(seq, x, k + 1)

\* list.index(x), 1-based here; Raised stands for ValueError.
Index(seq, x) == IndexFrom(seq, x, 1)

(***************************************************************************)
(* str(timedelta), str(datetime) and datetime.fromisoformat.               *)
(***************************************************************************)
\* "%d:%02d:%02d" % (hh, mm, ss)
Clock3(hh, mm, ss) ==
    FormatInt(hh) \o <<":">> \o ZeroPad(Digits(mm), 2)
                  \o <<":">> \o ZeroPad(Digits(ss), 2)

\* ".%06d" % us when us is not 0
Fraction(us) == IF us = 0 THEN <<>> ELSE <<".">> \o ZeroPad(Digits(us), 6)

\* str(d) of a timedelta d: "[D day[s], ]H:MM:SS[.ffffff]"
TdStr(d) ==
    LET mm == d.seconds \div 60
        plural == IF d.days \in {1, -1} THEN <<>> ELSE <<"s">>
        dayPart == IF d.days = 0 THEN <<>>
                   ELSE FormatInt(d.days) \o <<" ", "d", "a", "y">>
                        \o plural \o <<",", " ">>
    IN  dayPart \o Clock3(mm \div 60, mm % 60, d.seconds % 60)
                \o Fraction(d.microseconds)

\* str(t) of a datetime t: "<date> HH:MM:SS[.ffffff]"; the date is written
\* as the four digits of its ordinal.
DtStr(t) ==
    LET mm == t.seconds \div 60
    IN  ZeroPad(Digits(t.days), 4) \o <<" ">>
        \o ZeroPad(Clock3(mm \div 60, mm % 60, t.seconds % 60), 8)
        \o Fraction(t.microseconds)

AllDigits(t, n) == Len(t) = n /\ \A k \in 1..n : IsDigit(t[k])

\* datetime.fromisoformat(x): "<date>" or "<date> HH:MM:SS[.fff[fff]]";
\* Raised stands for ValueError.
FromIsoFormat(x) ==
    LET parts == Split(x, " ")
        date == parts[1]
        hms == Split(parts[2], ":")
        secs == Split(hms[3], ".")
        frac == secs[2]
        us == IF Len(secs) = 1 THEN 0
              ELSE IF Len(frac) = 3 THEN DigitsValue(frac, 0) * 1000
              ELSE DigitsValue(frac, 0)
        hh == DigitsValue(hms[1], 0)
        mi == DigitsValue(hms[2], 0)
        ss == DigitsValue(secs[1], 0)
    IN  IF ~AllDigits(date, 4) \/ Len(parts) > 2 THEN Raised
        ELSE IF Len(parts) = 1 THEN timedelta(DigitsValue(date, 0), 0, 0)
        ELSE IF Len(hms) # 3 \/ ~AllDigits(hms[1], 2) \/ ~AllDigits(hms[2], 2)
             THEN Raised
        ELSE IF Len(secs) > 2 \/ ~AllDigits(secs[1], 2) THEN Raised
        ELSE IF Len(secs) = 2 /\ ~(AllDigits(frac, 3) \/ AllDigits(frac, 6))
             THEN Raised
        ELSE IF hh > 23 \/ mi > 59 \/ ss > 59 THEN Raised
        ELSE timedelta(DigitsValue(date, 0), hh * 3600 + mi * 60 + ss, us)

(***************************************************************************)
(* The csv module: what csv.writer(f, delimiter=sep) writes and what       *)
(* csv.reader(f) reads back.  A file is [sep, rows], rows being the lists  *)
(* handed to writerow, with the ledger they were written from.             *)
(***************************************************************************)
\* The cell csv.writer writes for a value: None is written as the empty
\* string, an int as its digits.
CsvCell(v) ==
    IF v.type = "str" THEN v.s
    ELSE IF v.type = "int" THEN FormatInt(v.i)
    ELSE <<>>

RECURSIVE Join(_, _)
Join(cells, sep) ==
    IF cells = <<>> THEN <<>>
    ELSE IF Len(cells) = 1 THEN cells[1]
    ELSE cells[1] \o <<sep>> \o Join(Tail(cells), sep)

\* csv.reader(f): the delimiter is always ",".  A file written with "," reads
\* back cell by cell (cells holding a comma are quoted by the writer); a
\* file written with another delimiter is cut at its commas instead.
ReadRows(file) ==
    IF file.sep = "," THEN file.rows
    ELSE [k \in 1..Len(file.rows) |-> Split(Join(file.rows[k], file.sep), ",")]

(***************************************************************************)
(* The inputs the operations are called with.                              *)
(***************************************************************************)
\* The str names ledgers are asked for by.
Names == {PyStr(<<"x">>)}

\* Every key the registry can hold: a str name, None, or the id of an
\* unnamed ledger.
Keys == Names \cup {None} \cup {PyInt(n) : n \in 0..(MaxInstances - 1)}

\* The event labels record_split is called with.
Events == {PyStr(<<"e">>)}

\* __qualname__ of the callables time_record wraps.
Qualnames == {<<"f">>}

\* The paths to_csv and from_csv are called with, and the delimiters.
Paths == {PyStr(<<"p">>)}
Seps == {",", ";"}

Zero == timedelta(0, 0, 0)

\* The clock at the start, one microsecond before midnight, and the amounts
\* by which it moves between two readings of dt.now().
StartOfTime == timedelta(1, 86399, 999999)
Deltas == {Zero, timedelta(0, 3661, 1), timedelta(1, 0, 0)}

\* The same around a callable that sleeps a second.
Sleeps == {Zero, timedelta(0, 1, 0)}

NoInstance == -1

(***************************************************************************)
(* State.                                                                  *)
(***************************************************************************)
VARIABLES
    clock,       \* the latest reading of dt.now()
    advances,    \* how many readings moved the clock
    leatest_id,  \* TimeMeasurer.__leatest_id
    measurers,   \* TimeMeasurer._measurers: key -> instance
    heap,        \* instance -> [id, name, start, splittimes]
    files,       \* path -> [sep, rows, ledger]
    stack,       \* the __wrapper invocations that have not returned yet
    last,        \* the operation that ran last: its argument and result
                 \* (for record_restart, the number of splittimes cleared)
    popped,      \* the instances pop_measurer(L.name) has returned
    freed,       \* the keys removed by pop_measurer and not registered since
    calls,       \* instance -> the __wrapper invocations it has recorded, or
                 \* -1 once something else has touched its splittimes
    _FILE_HANDLER_FORMAT,    \* debuglog._FILE_HANDLER_FORMAT
    _STREAM_HANDLER_FORMAT,  \* debuglog._STREAM_HANDLER_FORMAT
    handlers,    \* the handlers of the logger "debug", in the order added
    output       \* stream -> the lines written to it

\* The state of measuretime.py that the operations of debuglog.py leave
\* alone, and the state of debuglog.py.
ledgervars == <<clock, advances, leatest_id, measurers, heap, files, stack,
                popped, freed, calls>>
logvars == <<_FILE_HANDLER_FORMAT, _STREAM_HANDLER_FORMAT, handlers, output>>

vars == <<ledgervars, last, logvars>>

Instances == DOMAIN heap

Splittime(event, time) == [event |-> event, time |-> time]
Laptime(event, time) == [event |-> event, time |-> time]

Op(op, arg, target, ret, raised) ==
    [op |-> op, arg |-> arg, target |-> target, ret |-> ret,
     raised |-> raised]

\* dict[key] = value
SetItem(dict, key, value) ==
    [k \in DOMAIN dict \cup {key} |-> IF k = key THEN value ELSE dict[k]]

\* the dict without key
DelItem(dict, key) == [k \in DOMAIN dict \ {key} |-> dict[k]]

\* A reading of dt.now() that finds the clock moved by d.
CanRead(d) == d = Zero \/ advances < MaxAdvances
Moved(d) == IF d = Zero THEN 0 ELSE 1

(***************************************************************************)
(* TimeMeasurer: the computed properties and the generators.               *)
(***************************************************************************)
\* An end that reads the first record instead of the last.
end_first(m) ==
    IF m.splittimes # <<>>
    THEN DtAdd(m.start, m.splittimes[1].time)
    ELSE m.start

\* TimeMeasurer.end
end(m) ==
    IF m.splittimes # <<>>
    THEN DtAdd(m.start, m.splittimes[Len(m.splittimes)].time)
    ELSE m.start

\* TimeMeasurer.totaltime
totaltime(m) == DtSub(end(m), m.start)

\* list(m.get_splittime())
get_splittime(m) == m.splittimes

RECURSIVE LapsFrom(_, _)
LapsFrom(splits, prev) ==
    IF splits = <<>> THEN <<>>
    ELSE <<Laptime(Head(splits).event, DtSub(Head(splits).time, prev))>>
         \o LapsFrom(Tail(splits), Head(splits).time)

\* Laps that never move prev on: every lap is measured from the start.
get_laptime_stale(m) ==
    [k \in 1..Len(m.splittimes) |->
        Laptime(m.splittimes[k].event, DtSub(m.splittimes[k].time, Zero))]

\* list(m.get_laptime())
get_laptime(m) == LapsFrom(m.splittimes, Zero)

(***************************************************************************)
(* TimeMeasurer: construction and the recording methods, as functions of   *)
(* the instant dt.now() returns.  A world is the part of the state the     *)
(* registry operations read and write, with the instance they return.      *)
(***************************************************************************)
World == [heap |-> heap, measurers |-> measurers, leatest_id |-> leatest_id,
          ret |-> NoInstance, raised |-> FALSE]

\* TimeMeasurer(name): __init__ with _get_id
TimeMeasurer(w, name, now) ==
    LET id == w.leatest_id
        self == [id |-> id,
                 name |-> IF name = None THEN PyInt(id) ELSE name,
                 start |-> now,
                 splittimes |-> <<>>]
    IN  [heap |-> SetItem(w.heap, id, self),
         measurers |-> SetItem(w.measurers, self.name, id),
         leatest_id |-> id + 1,
         ret |-> id,
         raised |-> FALSE]

\* whether get_measurer(name) constructs a ledger
Creates(w, name) == name \notin DOMAIN w.measurers

\* A lookup that constructs a ledger whether or not the name is registered.
get_measurer_always_new(w, name, now) ==
    LET c == TimeMeasurer(w, name, now)
    IN  [c EXCEPT !.measurers = SetItem(c.measurers, name, c.ret)]

get_measurer(w, name, now) ==
    IF ~Creates(w, name) THEN [w EXCEPT !.ret = w.measurers[name]]
    ELSE LET c == TimeMeasurer(w, name, now)
         IN  [c EXCEPT !.measurers = SetItem(c.measurers, name, c.ret)]

\* A removal that returns the ledger and leaves it registered.
pop_keep(w, name) ==
    IF name \in DOMAIN w.measurers
    THEN [w EXCEPT !.ret = w.measurers[name]]
    ELSE [w EXCEPT !.ret = NoInstance]

\* A removal without the default: KeyError for an absent name.
pop_keyerror(w, name) ==
    IF name \in DOMAIN w.measurers
    THEN [w EXCEPT !.measurers = DelItem(w.measurers, name),
                   !.ret = w.measurers[name]]
    ELSE [w EXCEPT !.ret = NoInstance, !.raised = TRUE]

\* TimeMeasurer.pop(name): _measurers.pop(name, None)
pop(w, name) ==
    IF name \in DOMAIN w.measurers
    THEN [w EXCEPT !.measurers = DelItem(w.measurers, name),
                   !.ret = w.measurers[name]]
    ELSE [w EXCEPT !.ret = NoInstance]

\* A restart that moves the start and keeps the records.
record_restart_keep_records(m, now) == [m EXCEPT !.start = now]

\* A restart that clears the records and keeps the old start.
record_restart_keep_start(m, now) == [m EXCEPT !.splittimes = <<>>]

record_restart(m, now) == [m EXCEPT !.start = now, !.splittimes = <<>>]

record_split(m, event, now) ==
    [m EXCEPT !.splittimes =
        Append(@, Splittime(IF event = None
                            THEN PyStr(Digits(Len(m.splittimes)))
                            ELSE event,
                            DtSub(now, m.start)))]

\* deepcopy(m): a ledger of its own with the fields of m; __init__ does not
\* run, so the copy has no id of its own and is registered nowhere.
deepcopy(m) == m

\* list.extend(other): the list afterwards.  The call itself returns None.
extend(list, other) == list \o other

\* self + other: made is the copy the method extends, ret is what the
\* method returns, the value of list.extend, so no instance.
__add__(self, other) ==
    LET ret == deepcopy(self)
    IN  [made |-> [ret EXCEPT !.splittimes = extend(@, other.splittimes)],
         ret |-> NoInstance]

\* self += other: self after the method, and ret, what the method returns
\* and the statement binds to the variable on its left.
__iadd__(self, other) ==
    [self |-> [self EXCEPT !.splittimes = extend(@, other.splittimes)],
     ret |-> NoInstance]

(***************************************************************************)
(* to_csv and from_csv.                                                    *)
(***************************************************************************)
ROW_START_EVT == <<"Start">>
COL_EVTNAME == <<"Event">>
COL_TIME == <<"Time">>
COL_SPLITTIME == <<"SplitTime">>
COL_LAPTIME == <<"LapTime">>

\* The path to_csv writes: DEFAULT_LOG_DIR / (self.name + ".csv") when no
\* path is given; Raised stands for the TypeError of int + str.
CsvPath(m, path) ==
    IF path # None THEN path
    ELSE IF m.name.type # "str" THEN Raised
    ELSE PyStr(<<"DEFAULT_LOG_DIR/">> \o m.name.s \o <<".csv">>)

\* The rows to_csv hands to the writer.
CsvRows(m) ==
    LET laps == get_laptime(m)
        splits == get_splittime(m)
    IN  <<<<COL_EVTNAME, COL_TIME, COL_SPLITTIME, COL_LAPTIME>>,
          <<ROW_START_EVT, DtStr(m.start), <<"-">>, <<"-">>>>>>
        \o [k \in 1..Len(splits) |->
              <<CsvCell(laps[k].event),
                DtStr(DtAdd(m.start, splits[k].time)),
                TdStr(splits[k].time),
                TdStr(laps[k].time)>>]

\* One of hours, minutes, seconds of a SplitTime cell: int(x), or the pair
\* (int(x.split('.')[0]), int(x.split('.')[1])) when x holds a '.'.
Field(x) ==
    IF Contains(x, ".")
    THEN [pair |-> TRUE, a |-> ParseInt(Split(x, ".")[1]),
          b |-> ParseInt(Split(x, ".")[2])]
    ELSE [pair |-> FALSE, a |-> ParseInt(x), b |-> PyInt(0)]

\* The timedelta from_csv builds from a SplitTime cell; Raised stands for
\* the ValueError or TypeError of a cell not of the form H:MM:SS[.ffffff].
ParseSplittime(cell) ==
    LET parts == Split(cell, ":")
        hours == Field(parts[1])
        minutes == Field(parts[2])
        seconds == Field(parts[3])
    IN  IF Len(parts) # 3 THEN Raised
        ELSE IF Raised \in {hours.a, hours.b, minutes.a, minutes.b,
                            seconds.a, seconds.b} THEN Raised
        ELSE IF hours.pair \/ minutes.pair THEN Raised
        ELSE td(hours.a.i, minutes.a.i, seconds.a.i,
                IF seconds.pair THEN seconds.b.i ELSE 0)

RECURSIVE ParseEvents(_, _, _)
\* The evts list from_csv builds from the rows after the Start row; ok is
\* FALSE when a row is too short or its SplitTime cell does not parse.
ParseEvents(rows, i_evt, i_stime) ==
    IF rows = <<>> THEN [ok |-> TRUE, evts |-> <<>>]
    ELSE LET row == Head(rows)
             rest == ParseEvents(Tail(rows), i_evt, i_stime)
             failed == [ok |-> FALSE, evts |-> <<>>]
         IN  IF Len(row) < i_stime \/ Len(row) < i_evt THEN failed
             ELSE IF ParseSplittime(row[i_stime]) = Raised THEN failed
             ELSE IF ~rest.ok THEN failed
             ELSE [ok |-> TRUE,
                   evts |-> <<Splittime(PyStr(row[i_evt]),
                                        ParseSplittime(row[i_stime]))>>
                            \o rest.evts]

\* What from_csv has read when it leaves the with block: the cell of the
\* start time and the evts list, or Raised.
ParseCsv(rows) ==
    LET head == rows[1]
        i_evt == Index(head, COL_EVTNAME)
        i_time == Index(head, COL_TIME)
        i_stime == Index(head, COL_SPLITTIME)
        parsed == ParseEvents(SubSeq(rows, 3, Len(rows)), i_evt.i, i_stime.i)
    IN  IF Len(rows) < 2 THEN Raised
        ELSE IF Raised \in {i_evt, i_time, i_stime} THEN Raised
        ELSE IF ~parsed.ok THEN Raised
        ELSE [start |-> IF Len(rows[2]) < i_time.i THEN Raised
                        ELSE FromIsoFormat(rows[2][i_time.i]),
              evts |-> parsed.evts]

(***************************************************************************)
(* debuglog.py: the formatters, the handlers of the logger "debug" and the *)
(* way logging hands a record to them.                                     *)
(***************************************************************************)
NOTSET == 0
DEBUG == 10
INFO == 20
\* logging.addLevelName(logging.INFO + 1, "PRINT_INFO")
PRINT_INFO == INFO + 1
WARNING == 30

\* The levels records are logged at: DEBUG, INFO, PRINT_INFO, WARNING and
\* logging's ERROR and CRITICAL.
Levels == {DEBUG, INFO, PRINT_INFO, WARNING, 40, 50}

\* logging.Formatter(fmt, style=style)
Formatter(fmt, style) ==
    [type |-> "Formatter", s |-> fmt, i |-> 0, style |-> style]

\* The formatters the module starts with.
StreamFormat == Formatter(<<"{levelname}", "\t", "{message}">>, "{")
FileFormat ==
    Formatter(<<"{asctime}", "\t", "{filename}", "\t", "{lineno}", "\t",
                "{levelname}", "\t", "{message}">>, "{")

\* The values set_fhandler_format and set_shandler_format are called with:
\* a str, a Formatter, and two values that are neither.
Formats == {PyStr(<<"%(message)s">>), Formatter(<<"%(message)s">>, "%"),
            None, PyInt(0)}

\* type(object, class) as line 75 calls it: type() takes one or three
\* arguments, so the call raises TypeError whatever its arguments are.
type(object, class) == Raised

\* The formatter __set_formatter returns, or Raised for its TypeError.
__set_formatter(_format) ==
    LET isstr == type(_format, "str")
    IN  IF isstr = Raised THEN Raised
        ELSE IF isstr THEN Formatter(_format.s, "%")
        ELSE Raised

_DEFAULT_LOGGER_NAME == <<"debug">>
_DEFAULT_LOG_FILE == PyStr(<<"./log/debug.log">>)

\* sys.stdout and sys.stderr
stdout == PyStr(<<"<stdout>">>)
stderr == PyStr(<<"<stderr>">>)

\* The child names get_debug_logger is called with, and the names of the
\* loggers it returns.
Children == {PyStr(<<"kid">>)}
ChildName(child_name) == _DEFAULT_LOGGER_NAME \o <<".">> \o child_name.s
Loggers == {_DEFAULT_LOGGER_NAME} \cup {ChildName(c) : c \in Children}

\* StdOutFilter.filter(record)
StdOutFilter(record) == record.levelno = INFO

\* The handler logging.FileHandler(filename=path, ...) with its level and
\* formatter set as lines 216 and 217 set them.
FileHandler(path) ==
    [stream |-> path, level |-> DEBUG, formatter |-> _FILE_HANDLER_FORMAT,
     filters |-> {}]

__get_stdout_handler ==
    [stream |-> stdout, level |-> NOTSET,
     formatter |-> _STREAM_HANDLER_FORMAT, filters |-> {"StdOutFilter"}]

__get_stderr_handler ==
    [stream |-> stderr, level |-> WARNING,
     formatter |-> _STREAM_HANDLER_FORMAT, filters |-> {}]

\* A log record, and what a handler writes for it: the record as its
\* formatter lays it out.
LogRecord(name, levelno, message) ==
    [name |-> name, levelno |-> levelno, message |-> message]
Line(formatter, record) == [formatter |-> formatter, record |-> record]

\* Handler.handle(record): the record passes the handler's filters and is
\* emitted.
Handles(hdlr, record) ==
    \A f \in hdlr.filters : f = "StdOutFilter" => StdOutFilter(record)

RECURSIVE callHandlers(_, _, _)
\* Logger.callHandlers(record) over the handlers hs of the logger "debug":
\* every handler whose level the record reaches handles it.  The streams
\* afterwards.
callHandlers(out, hs, record) ==
    IF hs = <<>> THEN out
    ELSE LET hdlr == Head(hs)
             emitted == /\ record.levelno >= hdlr.level
                        /\ Handles(hdlr, record)
         IN  callHandlers(IF emitted
                          THEN [out EXCEPT ![hdlr.stream] =
                                   Append(@, Line(hdlr.formatter, record))]
                          ELSE out,
                          Tail(hs), record)

\* logger.log(levelno, message) on the logger "debug" or a child of it: the
\* logger "debug" is at level DEBUG, its children inherit the level and
\* propagate to it, and the root logger above it has no handler.
Logged(out, hs, record) ==
    IF record.levelno >= DEBUG THEN callHandlers(out, hs, record) ELSE out

\* The lines written to the log file so far.
FileLines == IF handlers = <<>> THEN 0 ELSE Len(output[handlers[1].stream])

(***************************************************************************)
(* Initial state: the module has just been imported.                       *)
(***************************************************************************)
Init ==
    /\ clock = StartOfTime
    /\ advances = 0
    /\ leatest_id = 0
    /\ measurers = <<>>
    /\ heap = <<>>
    /\ files = <<>>
    /\ stack = <<>>
    /\ last = Op("import", None, NoInstance, NoInstance, FALSE)
    /\ popped = {}
    /\ freed = {}
    /\ calls = <<>>
    /\ _FILE_HANDLER_FORMAT = FileFormat
    /\ _STREAM_HANDLER_FORMAT = StreamFormat
    /\ handlers = <<>>
    /\ output = [stream \in {stdout, stderr} |-> <<>>]

\* The instances the pending __wrapper invocations record on.
Active == {stack[k].measurer : k \in 1..Len(stack)}

\* The world after a registry operation.
Commit(w) ==
    /\ heap' = w.heap
    /\ measurers' = w.measurers
    /\ leatest_id' = w.leatest_id

\* calls once the instances of the world w exist: a new ledger has recorded
\* no invocation yet.
Counted(w) ==
    [l \in DOMAIN w.heap |-> IF l \in DOMAIN calls THEN calls[l] ELSE 0]

(***************************************************************************)
(* The operations.                                                         *)
(***************************************************************************)
\* TimeMeasurer(name)
Construct(name, d) ==
    /\ leatest_id < MaxInstances
    /\  /\ CanRead(d)
        /\ LET now == DtAdd(clock, d)
               w == TimeMeasurer(World, name, now)
           IN  /\ Commit(w)
               /\ clock' = now
               /\ advances' = advances + Moved(d)
               /\ freed' = freed \ DOMAIN w.measurers
               /\ calls' = Counted(w)
               /\ last' = Op("TimeMeasurer", name, w.ret, w.ret, FALSE)
    /\ UNCHANGED <<files, stack, popped, logvars>>

\* get_measurer(name)
CallGetMeasurer(name, d) ==
    /\ Creates(World, name) => leatest_id < MaxInstances
    /\  /\ CanRead(d)
        /\ ~Creates(World, name) => d = Zero
        /\ LET now == DtAdd(clock, d)
               w == get_measurer(World, name, now)
           IN  /\ Commit(w)
               /\ clock' = now
               /\ advances' = advances + Moved(d)
               /\ freed' = freed \ DOMAIN w.measurers
               /\ calls' = Counted(w)
               /\ last' = Op("get_measurer", name, w.ret, w.ret, FALSE)
    /\ UNCHANGED <<files, stack, popped, logvars>>

\* pop_measurer(name)
CallPopMeasurer(name) ==
    LET w == pop(World, name)
    IN  /\ Commit(w)
        /\ popped' = IF w.ret # NoInstance /\ heap[w.ret].name = name
                     THEN popped \cup {w.ret} ELSE popped
        /\ freed' = IF w.ret # NoInstance THEN freed \cup {name} ELSE freed
        /\ last' = Op("pop_measurer", name, w.ret, w.ret, w.raised)
        /\ UNCHANGED <<clock, advances, files, stack, calls, logvars>>

\* m.record_restart() on an instance the caller holds
CallRecordRestart(l, d) ==
    /\ l \in Instances
    /\  /\ CanRead(d)
        /\ LET now == DtAdd(clock, d)
           IN  /\ heap' = [heap EXCEPT ![l] = record_restart(@, now)]
               /\ clock' = now
               /\ advances' = advances + Moved(d)
               /\ last' = Op("record_restart", PyInt(Len(heap[l].splittimes)),
                             l, NoInstance, FALSE)
    /\ calls' = [calls EXCEPT ![l] = IF l \in Active THEN -1 ELSE 0]
    /\ UNCHANGED <<leatest_id, measurers, files, stack, popped, freed,
                   logvars>>

\* m.record_split(event) on an instance the caller holds; event may be None
CallRecordSplit(l, event, d) ==
    /\ l \in Instances
    /\ Len(heap[l].splittimes) < MaxSplits
    /\  /\ CanRead(d)
        /\ LET now == DtAdd(clock, d)
           IN  /\ heap' = [heap EXCEPT ![l] = record_split(@, event, now)]
               /\ clock' = now
               /\ advances' = advances + Moved(d)
               /\ last' = Op("record_split", event, l, NoInstance, FALSE)
    /\ calls' = [calls EXCEPT ![l] = -1]
    /\ UNCHANGED <<leatest_id, measurers, files, stack, popped, freed,
                   logvars>>

\* "{}_start".format(func.__qualname__) and "{}_end".format(...)
StartEvent(qualname) == PyStr(qualname \o <<"_start">>)
\* An end label copied from the start label.
EndEvent_copied(qualname) == PyStr(qualname \o <<"_start">>)
EndEvent(qualname) == PyStr(qualname \o <<"_end">>)

\* A call of a callable wrapped by time_record(name), up to the point where
\* the callable starts to run: get_measurer(name), then
\* record_split("<qualname>_start").
WrapperCall(name, qualname, d1, d2) ==
    /\ Len(stack) < MaxDepth
    /\ Creates(World, name) => leatest_id < MaxInstances
    /\ ~Creates(World, name) =>
           Len(heap[measurers[name]].splittimes) + 2 <= 2 * MaxCalls
    /\  /\ CanRead(d1) /\ CanRead(d2)
        /\ advances + Moved(d1) + Moved(d2) <= MaxAdvances
        /\ ~Creates(World, name) => d1 = Zero
        /\ LET w == get_measurer(World, name, DtAdd(clock, d1))
               now == DtAdd(DtAdd(clock, d1), d2)
               measurer == w.ret
               event == StartEvent(qualname)
           IN  /\ Commit([w EXCEPT !.heap[measurer] =
                                       record_split(@, event, now)])
               /\ clock' = now
               /\ advances' = advances + Moved(d1) + Moved(d2)
               /\ freed' = freed \ DOMAIN w.measurers
               /\ calls' = [Counted(w) EXCEPT ![measurer] =
                               IF measurer \in Active THEN -1 ELSE @]
               /\ stack' = Append(stack, [name |-> name,
                                          measurer |-> measurer,
                                          qualname |-> qualname])
               /\ last' = Op("wrapper_call", name, measurer, NoInstance,
                             FALSE)
    /\ UNCHANGED <<files, popped, logvars>>

\* The wrapped callable returns: record_split("<qualname>_end") on the
\* ledger the invocation looked up when it started.
WrapperReturn(d) ==
    /\ stack # <<>>
    /\ LET frame == stack[Len(stack)]
           measurer == frame.measurer
           event == EndEvent(frame.qualname)
       IN   /\ CanRead(d)
            /\ LET now == DtAdd(clock, d)
               IN  /\ heap' = [heap EXCEPT ![measurer] =
                                  record_split(@, event, now)]
                   /\ clock' = now
                   /\ advances' = advances + Moved(d)
                   /\ calls' = [calls EXCEPT ![measurer] =
                                   IF @ >= 0 THEN @ + 1 ELSE -1]
                   /\ last' = Op("wrapper_return", frame.name, measurer,
                                 NoInstance, FALSE)
    /\ stack' = SubSeq(stack, 1, Len(stack) - 1)
    /\ UNCHANGED <<leatest_id, measurers, files, popped, freed, logvars>>

\* The wrapped callable raises: the exception leaves __wrapper at line 439.
WrapperRaise ==
    /\ stack # <<>>
    /\ LET frame == stack[Len(stack)]
       IN  /\ calls' = [calls EXCEPT ![frame.measurer] = -1]
           /\ last' = Op("wrapper_raise", frame.name, frame.measurer,
                         NoInstance, TRUE)
    /\ stack' = SubSeq(stack, 1, Len(stack) - 1)
    /\ UNCHANGED <<clock, advances, leatest_id, measurers, heap, files,
                   popped, freed, logvars>>

\* m.to_csv(path, sep); path may be None
ToCsv(l, path, sep) ==
    /\ l \in Instances
    /\ LET target == CsvPath(heap[l], path)
       IN  IF target = Raised
           THEN /\ files' = files
                /\ last' = Op("to_csv", path, l, NoInstance, TRUE)
           ELSE /\ Cardinality(DOMAIN files \cup {target}) <= MaxFiles
                /\ files' = SetItem(files, target,
                                    [sep |-> sep, rows |-> CsvRows(heap[l]),
                                     ledger |-> heap[l]])
                /\ last' = Op("to_csv", target, l, NoInstance, FALSE)
    /\ UNCHANGED <<clock, advances, leatest_id, measurers, heap, stack,
                   popped, freed, calls, logvars>>

\* The file at path is edited outside the program before it is read back:
\* the SplitTime label is taken out of the header, a SplitTime cell is
\* overwritten, or the time of the Start row is.
Edited(rows, damage) ==
    IF damage = "header"
    THEN [rows EXCEPT ![1] = <<COL_EVTNAME, COL_TIME, COL_LAPTIME>>]
    ELSE IF damage = "duration"
    THEN [rows EXCEPT ![3][3] = <<"x">>]
    ELSE [rows EXCEPT ![2][2] = <<"-">>]

EditFile(path, damage) ==
    /\ path \in DOMAIN files
    /\ damage = "duration" => Len(files[path].rows) >= 3
    /\ files' = [files EXCEPT ![path].rows = Edited(@, damage)]
    /\ last' = Op("edit", path, NoInstance, NoInstance, FALSE)
    /\ UNCHANGED <<clock, advances, leatest_id, measurers, heap, stack,
                   popped, freed, calls, logvars>>

\* from_csv(path)
FromCsv(path, d) ==
    LET parsed == IF path \in DOMAIN files
                  THEN ParseCsv(ReadRows(files[path])) ELSE Raised
    IN  IF parsed = Raised
        THEN /\ last' = Op("from_csv", path, NoInstance, NoInstance, TRUE)
             /\ UNCHANGED <<clock, advances, leatest_id, measurers, heap,
                            files, stack, popped, freed, calls, logvars>>
        ELSE /\ Creates(World, None) => leatest_id < MaxInstances
             /\  /\ CanRead(d)
                 /\ ~Creates(World, None) => d = Zero
                 /\ LET now == DtAdd(clock, d)
                        w == get_measurer(World, None, now)
                        self == w.ret
                        failed == parsed.start = Raised
                    IN  /\ Commit(IF failed THEN w
                                  ELSE [w EXCEPT
                                          !.heap[self].start = parsed.start,
                                          !.heap[self].splittimes =
                                              parsed.evts])
                        /\ clock' = now
                        /\ advances' = advances + Moved(d)
                        /\ freed' = freed \ DOMAIN w.measurers
                        /\ calls' = [Counted(w) EXCEPT ![self] =
                                        IF failed THEN @ ELSE -1]
                        /\ last' = Op("from_csv", path, self,
                                      IF failed THEN NoInstance ELSE self,
                                      failed)
             /\ UNCHANGED <<files, stack, popped, logvars>>

\* a + b on two instances the caller holds.  The copy __add__ made is
\* referred to by nothing once the method has returned.
CallAdd(a, b) ==
    /\ a \in Instances /\ b \in Instances
    /\ LET sum == __add__(heap[a], heap[b])
       IN  last' = Op("__add__", PyInt(b), a, sum.ret, FALSE)
    /\ UNCHANGED <<clock, advances, leatest_id, measurers, heap, files, stack,
                   popped, freed, calls, logvars>>

\* a += b on two instances the caller holds; last.ret is what the variable
\* a is bound to afterwards.
CallIAdd(a, b) ==
    /\ a \in Instances /\ b \in Instances
    /\ Len(heap[a].splittimes) + Len(heap[b].splittimes) <= MaxJoined
    /\ LET sum == __iadd__(heap[a], heap[b])
       IN  /\ heap' = [heap EXCEPT ![a] = sum.self]
           /\ last' = Op("__iadd__", PyInt(b), a, sum.ret, FALSE)
    /\ calls' = [calls EXCEPT ![a] = -1]
    /\ UNCHANGED <<clock, advances, leatest_id, measurers, files, stack,
                   popped, freed, logvars>>

\* set_fhandler_format(_format)
set_fhandler_format(_format) ==
    LET made == __set_formatter(_format)
    IN  /\ _FILE_HANDLER_FORMAT' =
               IF made = Raised THEN _FILE_HANDLER_FORMAT ELSE made
        /\ last' = Op("set_fhandler_format", _format, NoInstance,
                      NoInstance, made = Raised)
        /\ UNCHANGED <<ledgervars, _STREAM_HANDLER_FORMAT, handlers, output>>

\* set_shandler_format(_format)
set_shandler_format(_format) ==
    LET made == __set_formatter(_format)
    IN  /\ _STREAM_HANDLER_FORMAT' =
               IF made = Raised THEN _STREAM_HANDLER_FORMAT ELSE made
        /\ last' = Op("set_shandler_format", _format, NoInstance,
                      NoInstance, made = Raised)
        /\ UNCHANGED <<ledgervars, _FILE_HANDLER_FORMAT, handlers, output>>

\* get_debug_logger(child_name, path, can_append); child_name and path may
\* be None.  The handlers are made on the first call only; opening the file
\* in mode 'w' empties it, and a newline is written to it before anything
\* is logged.
get_debug_logger(child_name, path, can_append) ==
    LET first == handlers = <<>>
        target == IF path = None THEN _DEFAULT_LOG_FILE ELSE path
        kept == IF can_append /\ target \in DOMAIN output
                THEN output[target] ELSE <<>>
        opened == SetItem(output, target,
                          Append(kept, Line(None,
                                            LogRecord(<<>>, NOTSET,
                                                      <<"\n">>))))
        hs == IF first
              THEN <<FileHandler(target), __get_stderr_handler,
                     __get_stdout_handler>>
              ELSE handlers
        made == IF first
                THEN Logged(opened, hs,
                            LogRecord(_DEFAULT_LOGGER_NAME, DEBUG,
                                      <<"--- Maked RootLogger">>))
                ELSE output
        changed == IF child_name = None THEN made
                   ELSE Logged(made, hs,
                               LogRecord(ChildName(child_name), DEBUG,
                                         <<"--- Changed ChildLogger">>))
    IN  /\ FileLines + (IF first THEN 2 ELSE 0)
              + (IF child_name = None THEN 0 ELSE 1) <= MaxLines
        /\ handlers' = hs
        /\ output' = changed
        /\ last' = Op("get_debug_logger", child_name, NoInstance, NoInstance,
                      FALSE)
        /\ UNCHANGED <<ledgervars, _FILE_HANDLER_FORMAT,
                       _STREAM_HANDLER_FORMAT>>

\* logger.log(levelno, ...) on a logger get_debug_logger has returned
Log(name, levelno) ==
    /\ handlers # <<>>
    /\ FileLines < MaxLines
    /\ output' = Logged(output, handlers,
                        LogRecord(name, levelno, <<"message">>))
    /\ last' = Op("log", PyInt(levelno), NoInstance, NoInstance, FALSE)
    /\ UNCHANGED <<ledgervars, _FILE_HANDLER_FORMAT, _STREAM_HANDLER_FORMAT,
                   handlers>>

\* The registry and the ledgers: construction, lookup, removal and the two
\* recording methods.
Next ==
    \/ \E name \in Names \cup {None}, d \in Deltas : Construct(name, d)
    \/ \E name \in Names \cup {None}, d \in Deltas : CallGetMeasurer(name, d)
    \/ \E name \in Keys : CallPopMeasurer(name)
    \/ \E l \in Instances, d \in Deltas : CallRecordRestart(l, d)
    \/ \E l \in Instances, event \in Events \cup {None}, d \in Deltas :
          CallRecordSplit(l, event, d)

Spec == Init /\ [][Next]_vars

\* Callers that record through time_record only: callables decorated with
\* a str name, with lookups, removals and restarts around and inside their
\* runs.
NextTimed ==
    \/ \E name \in Names, qualname \in Qualnames, d1, d2 \in Sleeps :
          WrapperCall(name, qualname, d1, d2)
    \/ \E d \in Sleeps : WrapperReturn(d)
    \/ WrapperRaise
    \/ \E name \in Names, d \in Sleeps : CallGetMeasurer(name, d)
    \/ \E name \in Keys : CallPopMeasurer(name)
    \/ \E l \in Instances, d \in Sleeps : CallRecordRestart(l, d)

SpecTimed == Init /\ [][NextTimed]_vars

\* Callers that save ledgers and load them back.
NextCsv ==
    \/ \E name \in Names \cup {None}, d \in Deltas : CallGetMeasurer(name, d)
    \/ \E l \in Instances, d \in Deltas : CallRecordSplit(l, None, d)
    \/ \E l \in Instances, path \in Paths \cup {None}, sep \in Seps :
          ToCsv(l, path, sep)
    \/ \E path \in Paths \cup DOMAIN files, d \in Deltas : FromCsv(path, d)

SpecCsv == Init /\ [][NextCsv]_vars

\* Callers that save ledgers with the default delimiter and load them back,
\* the files being edited by hand between the save and the load.
Damages == {"header", "duration", "start"}

NextLoad ==
    \/ \E name \in Names \cup {None}, d \in Sleeps : CallGetMeasurer(name, d)
    \/ \E l \in Instances, d \in Sleeps : CallRecordSplit(l, None, d)
    \/ \E l \in Instances, path \in Paths : ToCsv(l, path, ",")
    \/ \E path \in DOMAIN files, damage \in Damages : EditFile(path, damage)
    \/ \E path \in DOMAIN files, d \in Sleeps : FromCsv(path, d)

SpecLoad == Init /\ [][NextLoad]_vars

\* Callers that join ledgers with + and +=.
NextAdd ==
    \/ \E name \in Names \cup {None}, d \in Deltas : CallGetMeasurer(name, d)
    \/ \E l \in Instances, event \in Events \cup {None}, d \in Deltas :
          CallRecordSplit(l, event, d)
    \/ \E a, b \in Instances : CallAdd(a, b)
    \/ \E a, b \in Instances : CallIAdd(a, b)

SpecAdd == Init /\ [][NextAdd]_vars

\* Callers of debuglog.py: the two formatter setters, the logger and the
\* records logged through it.
NextLog ==
    \/ \E _format \in Formats : set_fhandler_format(_format)
    \/ \E _format \in Formats : set_shandler_format(_format)
    \/ \E child_name \in Children \cup {None}, path \in Paths \cup {None},
          can_append \in BOOLEAN :
          get_debug_logger(child_name, path, can_append)
    \/ \E name \in Loggers, levelno \in Levels : Log(name, levelno)

SpecLog == Init /\ [][NextLog]_vars

(***************************************************************************)
(* Properties.                                                             *)
(***************************************************************************)
Last(seq) == seq[Len(seq)]

\* C1: get_measurer(name) on a registered str name returns the instance
\* registered under that name and changes neither the registry nor any
\* ledger (its start and splittimes included); and the instance registered
\* under a name stays registered under it through every operation other
\* than pop_measurer(name) and TimeMeasurer(name).  Hence two
\* get_measurer(name) calls with no pop in between, whatever is recorded in
\* between, return the same instance.
C1_GetMeasurerIdempotent ==
    [][\A name \in Names :
          name \in DOMAIN measurers =>
            /\ (last'.op = "get_measurer" /\ last'.arg = name) =>
                  /\ last'.ret = measurers[name]
                  /\ heap' = heap
                  /\ measurers' = measurers
                  /\ leatest_id' = leatest_id
            /\ ~(last'.op \in {"pop_measurer", "TimeMeasurer"}
                 /\ last'.arg = name) =>
                  /\ name \in DOMAIN measurers'
                  /\ measurers'[name] = measurers[name]]_vars

\* get_measurer has just returned a ledger that already holds records.
C1_Witness ==
    /\ last.op = "get_measurer"
    /\ last.arg \in Names
    /\ heap[last.ret].splittimes # <<>>

\* C2: when pop_measurer(name) has removed a ledger and the name has not
\* been registered since, get_measurer(name) returns a ledger that did not
\* exist before the call, with the next id, registered under name, with no
\* splittimes and with start the instant of the call: no earlier than the
\* start of any older ledger, and later when the clock has moved.
C2_FreshAfterPop ==
    [][\A name \in Names \cup {None} :
          (name \in freed /\ last'.op = "get_measurer" /\ last'.arg = name) =>
            LET r == last'.ret
            IN  /\ r \notin DOMAIN heap
                /\ r \notin popped
                /\ r = leatest_id
                /\ heap'[r].id = r
                /\ measurers'[name] = r
                /\ heap'[r].splittimes = <<>>
                /\ heap'[r].start = clock'
                /\ \A l \in DOMAIN heap :
                      /\ DtLeq(heap[l].start, heap'[r].start)
                      /\ clock' # clock => heap[l].start # heap'[r].start]_vars

\* get_measurer has just made a ledger for a name whose former ledger,
\* started at another instant and holding records, was popped.
C2_Witness ==
    /\ last.op = "get_measurer"
    /\ last.ret = leatest_id - 1
    /\ \E l \in popped :
          /\ l # last.ret
          /\ heap[l].name = last.arg
          /\ heap[l].splittimes # <<>>
          /\ heap[l].start # heap[last.ret].start

\* C3: a ledger that pop_measurer(L.name) has returned is registered under
\* no key, and no get_measurer call returns it.
C3_PoppedIsCallersOnly ==
    \A l \in popped :
        /\ \A k \in DOMAIN measurers : measurers[k] # l
        /\ ~(last.op = "get_measurer" /\ last.ret = l)

\* C4: pop_measurer(name) for a name that is not registered returns None,
\* raises nothing and changes neither the registry nor any ledger.
C4_PopAbsent ==
    [][(last'.op = "pop_measurer" /\ last'.arg \notin DOMAIN measurers) =>
          /\ last'.ret = NoInstance
          /\ ~last'.raised
          /\ measurers' = measurers
          /\ heap' = heap
          /\ leatest_id' = leatest_id]_vars

\* pop_measurer has just found nothing under a name while a ledger with
\* records is registered under another.
C4_Witness ==
    /\ last.op = "pop_measurer"
    /\ last.ret = NoInstance
    /\ last.arg \notin DOMAIN measurers
    /\ \E k \in DOMAIN measurers : heap[measurers[k]].splittimes # <<>>

\* C5: for every ledger, end is start plus the time of the last splittime
\* when one is recorded and start otherwise, and totaltime is end - start:
\* the time of the last splittime, or zero when none is recorded; right
\* after record_split, end is the instant of the call.
C5_EndAndTotaltime ==
    \A l \in Instances :
        LET m == heap[l]
        IN  /\ m.splittimes = <<>> =>
                  /\ end(m) = m.start
                  /\ totaltime(m) = Zero
            /\ m.splittimes # <<>> =>
                  /\ end(m) = DtAdd(m.start, Last(m.splittimes).time)
                  /\ totaltime(m) = Last(m.splittimes).time
            /\ totaltime(m) = DtSub(end(m), m.start)
            /\ (last.op = "record_split" /\ last.target = l) => end(m) = clock

\* record_split has just recorded a second splittime, later than the first.
C5_Witness ==
    /\ last.op = "record_split"
    /\ Len(heap[last.target].splittimes) = 2
    /\ heap[last.target].splittimes[1].time
          # heap[last.target].splittimes[2].time
    /\ end(heap[last.target]) = clock

RECURSIVE SumTimes(_, _)
\* the sum of the times of the first n records
SumTimes(records, n) ==
    IF n = 0 THEN Zero ELSE DtAdd(SumTimes(records, n - 1), records[n].time)

\* C6: get_laptime yields one Laptime per splittime, in order and with the
\* same event; the first lap is the first splittime's time, every later lap
\* is the difference to the splittime before, and the laps up to i sum to
\* the i-th splittime's time.
C6_Laptimes ==
    \A l \in Instances :
        LET splits == get_splittime(heap[l])
            laps == get_laptime(heap[l])
        IN  /\ Len(laps) = Len(splits)
            /\ \A i \in 1..Len(splits) :
                  /\ laps[i].event = splits[i].event
                  /\ i = 1 => laps[i].time = splits[i].time
                  /\ i > 1 => laps[i].time
                                = DtSub(splits[i].time, splits[i - 1].time)
                  /\ SumTimes(laps, i) = splits[i].time

\* A ledger holds two splittimes, the first not at its start.
C6_Witness ==
    \E l \in Instances :
        /\ Len(heap[l].splittimes) = 2
        /\ heap[l].splittimes[1].time # Zero
        /\ get_laptime(heap[l])[2].time # heap[l].splittimes[2].time

\* C7: the Splittime record_split appends carries the event it was called
\* with: None when called without an event, e when called with e.
C7_EventAsGiven ==
    last.op = "record_split" =>
        Last(heap[last.target].splittimes).event = last.arg

\* C8: record_restart leaves the ledger without splittimes and with start
\* the instant of the call, later than the old start when the clock has
\* moved, so that end is start and totaltime is zero; its name and id, the
\* registry and every other ledger are unchanged.
C8_Restart ==
    [][\A l \in DOMAIN heap :
          (last'.op = "record_restart" /\ last'.target = l) =>
            /\ heap'[l].splittimes = <<>>
            /\ heap'[l].start = clock'
            /\ DtLeq(heap[l].start, heap'[l].start)
            /\ clock' # clock => DtLess(heap[l].start, heap'[l].start)
            /\ end(heap'[l]) = heap'[l].start
            /\ totaltime(heap'[l]) = Zero
            /\ heap'[l].name = heap[l].name
            /\ heap'[l].id = heap[l].id
            /\ measurers' = measurers
            /\ leatest_id' = leatest_id
            /\ DOMAIN heap' = DOMAIN heap
            /\ \A o \in DOMAIN heap \ {l} : heap'[o] = heap[o]]_vars

\* record_restart has just cleared two splittimes of a registered ledger
\* and moved its start.
C8_Witness ==
    /\ last.op = "record_restart"
    /\ last.arg = PyInt(2)
    /\ heap[last.target].splittimes = <<>>
    /\ heap[last.target].start = clock
    /\ clock # StartOfTime
    /\ \E k \in DOMAIN measurers : measurers[k] = last.target

\* C9: an invocation of a callable wrapped by time_record(name) records
\* "<qualname>_start" on the ledger registered under name when it starts and
\* "<qualname>_end" on the same ledger when the callable returns; a ledger
\* that k such invocations and nothing else have recorded on holds 2k
\* splittimes (one more while an invocation is running), each _start
\* followed by the _end of the same callable.
C9_TwoSplitsPerCall ==
    /\ last.op = "wrapper_call" =>
          /\ last.arg \in DOMAIN measurers
          /\ measurers[last.arg] = last.target
          /\ Last(stack).measurer = last.target
          /\ \E q \in Qualnames :
                /\ Last(stack).qualname = q
                /\ Last(heap[last.target].splittimes).event
                      = PyStr(q \o <<"_start">>)
    /\ last.op = "wrapper_return" =>
          \E q \in Qualnames :
              Last(heap[last.target].splittimes).event = PyStr(q \o <<"_end">>)
    /\ \A l \in Instances :
          calls[l] >= 0 =>
            LET splits == heap[l].splittimes
                running == Cardinality({k \in 1..Len(stack) :
                                           stack[k].measurer = l})
            IN  /\ running <= 1
                /\ Len(splits) = 2 * calls[l] + running
                /\ \A i \in 1..Len(splits) :
                      \E q \in Qualnames :
                          /\ i % 2 = 1 =>
                                splits[i].event = PyStr(q \o <<"_start">>)
                          /\ i % 2 = 0 =>
                                /\ splits[i].event = PyStr(q \o <<"_end">>)
                                /\ splits[i - 1].event
                                      = PyStr(q \o <<"_start">>)

\* Two invocations have returned and their ledger holds four splittimes.
C9_Witness ==
    /\ last.op = "wrapper_return"
    /\ calls[last.target] = 2
    /\ Len(heap[last.target].splittimes) = 4
    /\ stack = <<>>

\* C10: from_csv of a file written by L.to_csv with the default delimiter
\* raises nothing and returns a ledger with the start of L, as many
\* splittimes as L and the same time in each.
C10_RoundTrip ==
    (/\ last.op = "from_csv"
     /\ last.arg \in DOMAIN files
     /\ files[last.arg].sep = ",") =>
        /\ ~last.raised
        /\ LET L == files[last.arg].ledger
               R == heap[last.ret]
           IN  /\ R.start = L.start
               /\ Len(R.splittimes) = Len(L.splittimes)
               /\ \A i \in 1..Len(L.splittimes) :
                     R.splittimes[i].time = L.splittimes[i].time

\* The same for ledgers whose splittimes are all shorter than a day.
RoundTripWithinADay ==
    (/\ last.op = "from_csv"
     /\ last.arg \in DOMAIN files
     /\ files[last.arg].sep = ","
     /\ \A i \in 1..Len(files[last.arg].ledger.splittimes) :
           files[last.arg].ledger.splittimes[i].time.days = 0) =>
        /\ ~last.raised
        /\ LET L == files[last.arg].ledger
               R == heap[last.ret]
           IN  /\ R.start = L.start
               /\ Len(R.splittimes) = Len(L.splittimes)
               /\ \A i \in 1..Len(L.splittimes) :
                     R.splittimes[i].time = L.splittimes[i].time


(***************************************************************************)
(* C11: for any two ledgers a and b, a + b returns a TimeMeasurer whose    *)
(* splittimes are a's followed by b's in order, and leaves a and b, start  *)
(* and splittimes, unchanged.                                              *)
(***************************************************************************)
C11_AddReturnsJoinedLedger ==
    [][\A a, b \in Instances :
          CallAdd(a, b) =>
              /\ last'.ret \in DOMAIN heap'
              /\ heap'[last'.ret].splittimes =
                     heap[a].splittimes \o heap[b].splittimes
              /\ heap'[a] = heap[a]
              /\ heap'[b] = heap[b]]_vars

\* What does hold of a + b: it changes no ledger and returns no instance.
AddReturnsNone ==
    [][\A a, b \in Instances :
          CallAdd(a, b) => heap' = heap /\ last'.ret = NoInstance]_vars

(***************************************************************************)
(* C12: for any two ledgers a and b, after a += b the variable a still     *)
(* refers to the same instance, whose splittimes are its former ones       *)
(* followed by b's, with its start unchanged and b unchanged.              *)
(***************************************************************************)
C12_IAddKeepsInstance ==
    [][\A a, b \in Instances :
          CallIAdd(a, b) =>
              /\ last'.ret = a
              /\ heap'[a].splittimes =
                     heap[a].splittimes \o heap[b].splittimes
              /\ heap'[a].start = heap[a].start
              /\ a # b => heap'[b] = heap[b]]_vars

\* What does hold of a += b: the instance is extended in place, and the
\* variable is bound to no instance.
IAddExtendsInPlace ==
    [][\A a, b \in Instances :
          CallIAdd(a, b) =>
              /\ last'.ret = NoInstance
              /\ heap'[a].splittimes =
                     heap[a].splittimes \o heap[b].splittimes
              /\ heap'[a].start = heap[a].start
              /\ a # b => heap'[b] = heap[b]]_vars


(***************************************************************************)
(* C13: set_fhandler_format and set_shandler_format accept a str, from     *)
(* which a Formatter is built, or a logging.Formatter, used as is, and     *)
(* install it as the file or stream handler formatter; TypeError is raised *)
(* only for an argument that is neither, and then the formatter installed  *)
(* before is left unchanged.                                               *)
(***************************************************************************)
\* What a setter called with _format is to leave in the variable that held
\* before, and whether it is to raise.
Installed(_format, before) ==
    IF _format.type = "str" THEN Formatter(_format.s, "%")
    ELSE IF _format.type = "Formatter" THEN _format
    ELSE before
Rejected(_format) == _format.type \notin {"str", "Formatter"}

C13_FormatterAccepted ==
    [][\A _format \in Formats :
          /\ set_fhandler_format(_format) =>
                 /\ last'.raised = Rejected(_format)
                 /\ _FILE_HANDLER_FORMAT' =
                        Installed(_format, _FILE_HANDLER_FORMAT)
          /\ set_shandler_format(_format) =>
                 /\ last'.raised = Rejected(_format)
                 /\ _STREAM_HANDLER_FORMAT' =
                        Installed(_format, _STREAM_HANDLER_FORMAT)]_vars

\* What does hold of the two setters: they raise whatever they are given
\* and the formatters stay the ones the module started with.
SettersAlwaysRaise ==
    /\ last.op \in {"set_fhandler_format", "set_shandler_format"} =>
           last.raised
    /\ _FILE_HANDLER_FORMAT = FileFormat
    /\ _STREAM_HANDLER_FORMAT = StreamFormat

(***************************************************************************)
(* C14: for the logger get_debug_logger sets up, every record of level     *)
(* DEBUG or higher is written by the file handler, every record of level   *)
(* INFO or higher (INFO, PRINT_INFO, WARNING, ERROR, CRITICAL) is also     *)
(* emitted by exactly one console handler, stdout for INFO and stderr for  *)
(* WARNING and above, and DEBUG records reach no console handler.          *)
(***************************************************************************)
\* The lines a step adds to a stream.
Wrote(stream, before, after) == Len(after[stream]) - Len(before[stream])

C14_ConsoleRouting ==
    [][\A name \in Loggers, levelno \in Levels :
          Log(name, levelno) =>
              LET file == handlers[1].stream
                  out == Wrote(stdout, output, output')
                  err == Wrote(stderr, output, output')
              IN  /\ Wrote(file, output, output') = 1
                  /\ levelno >= INFO => out + err = 1
                  /\ levelno = INFO => out = 1
                  /\ levelno >= WARNING => err = 1
                  /\ levelno = DEBUG => out + err = 0]_vars

\* What does hold of the routing: as C14 for every level but PRINT_INFO,
\* whose records reach the file and no console handler.
RoutingButPrintInfo ==
    [][\A name \in Loggers, levelno \in Levels :
          Log(name, levelno) =>
              LET file == handlers[1].stream
                  out == Wrote(stdout, output, output')
                  err == Wrote(stderr, output, output')
              IN  /\ Wrote(file, output, output') = 1
                  /\ levelno = INFO => out = 1 /\ err = 0
                  /\ levelno >= WARNING => err = 1 /\ out = 0
                  /\ levelno \in {DEBUG, PRINT_INFO} => out + err = 0]_vars


(***************************************************************************)
(* C15: if a callable wrapped by time_record(name) raises, the             *)
(* "<qualname>_end" split is still recorded on the ledger after the        *)
(* "<qualname>_start" split and the exception then propagates, so every    *)
(* invocation, returning or raising, leaves a matching pair.               *)
(***************************************************************************)
C15_EndRecordedOnRaise ==
    [][WrapperRaise =>
          LET frame == stack[Len(stack)]
              before == heap[frame.measurer].splittimes
              after == heap'[frame.measurer].splittimes
          IN  /\ last'.raised
              /\ Len(after) = Len(before) + 1
              /\ Last(after).event = EndEvent(frame.qualname)]_vars

\* What does hold when the callable raises: the exception propagates and
\* no ledger is written, so the "<qualname>_start" split stays unmatched.
RaiseRecordsNothing ==
    [][WrapperRaise => last'.raised /\ heap' = heap]_vars


(***************************************************************************)
(* C16: in every state a ledger reaches by record_split and record_restart *)
(* under a clock that never goes back, the recorded durations are          *)
(* non-negative and non-decreasing in insertion order, and so every        *)
(* laptime get_laptime yields is at least zero.                            *)
(***************************************************************************)
C16_DurationsMonotone ==
    \A l \in Instances :
        LET splits == get_splittime(heap[l])
            laps == get_laptime(heap[l])
        IN  /\ \A k \in 1..Len(splits) : DtLeq(Zero, splits[k].time)
            /\ \A k \in 1..(Len(splits) - 1) :
                   DtLeq(splits[k].time, splits[k + 1].time)
            /\ \A k \in 1..Len(laps) : DtLeq(Zero, laps[k].time)

\* A ledger whose second record is later than its first, the clock having
\* moved between the two record_split calls.
C16_Witness ==
    /\ last.op = "record_split"
    /\ Len(heap[last.target].splittimes) = 2
    /\ DtLess(heap[last.target].splittimes[1].time,
              heap[last.target].splittimes[2].time)
    /\ DtLess(Zero, get_laptime(heap[last.target])[2].time)


(***************************************************************************)
(* C17: when from_csv fails on malformed input, a header lacking one of    *)
(* the labels, a SplitTime cell not of the form H:MM:SS[.ffffff] or a      *)
(* Start row whose time is no timestamp, the error propagates with no      *)
(* partial reconstruction: the registry has the same keys and ledgers as   *)
(* before the call and no existing ledger's start or splittimes changes.   *)
(***************************************************************************)
C17_FailedLoadChangesNothing ==
    [][\A path \in Paths \cup DOMAIN files, d \in Deltas :
          FromCsv(path, d) /\ last'.raised =>
              /\ measurers' = measurers
              /\ heap' = heap]_vars

\* What does hold of a failed load: no ledger that existed before is
\* changed, and the registry changes only when the time of the Start row
\* is what fails to parse and no ledger was registered under None: a new,
\* empty ledger is then left registered under None and its id.
FailedLoadKeepsLedgers ==
    [][\A path \in Paths \cup DOMAIN files, d \in Deltas :
          FromCsv(path, d) /\ last'.raised =>
              /\ \A l \in Instances : heap'[l] = heap[l]
              /\ measurers' # measurers =>
                     /\ None \notin DOMAIN measurers
                     /\ ParseCsv(ReadRows(files[path])) # Raised
                     /\ DOMAIN measurers' =
                            DOMAIN measurers \cup {None, PyInt(leatest_id)}
                     /\ heap'[leatest_id].splittimes = <<>>]_vars


(***************************************************************************)
(* C18: every successful from_csv call returns a ledger distinct from      *)
(* every ledger that existed before the call and modifies no ledger that   *)
(* existed before: after r1 = from_csv(p1) and r2 = from_csv(p2), or after *)
(* a get_measurer(None), r1 and r2 are different instances and r1 still    *)
(* holds the start and splittimes loaded from p1.                          *)
(***************************************************************************)
C18_LoadReturnsNewLedger ==
    [][\A path \in Paths \cup DOMAIN files, d \in Deltas :
          FromCsv(path, d) /\ ~last'.raised =>
              /\ last'.ret \notin Instances
              /\ \A l \in Instances : heap'[l] = heap[l]]_vars

\* What does hold of a successful load: the ledger returned is the one
\* registered under None, a new one only when there was none, and no other
\* ledger is changed.
LoadReturnsTheNoneLedger ==
    [][\A path \in Paths \cup DOMAIN files, d \in Deltas :
          FromCsv(path, d) /\ ~last'.raised =>
              /\ last'.ret = measurers'[None]
              /\ None \in DOMAIN measurers => last'.ret = measurers[None]
              /\ None \notin DOMAIN measurers => last'.ret \notin Instances
              /\ \A l \in Instances \ {last'.ret} : heap'[l] = heap[l]]_vars

====
